---- MODULE Spec2Model ----
(***************************************************************************)
(* Race simulation and ranking engine of simhorse-racing.                  *)
(*                                                                         *)
(* Numbers are fixed point: distances in whole track units, times in       *)
(* milliseconds, speeds in 1/1000 units per second, traits, multipliers    *)
(* and random values in 1/1000.  Angles handed to Math.sin are in          *)
(* milliradians.  Divisions round towards minus infinity.                  *)
(***************************************************************************)
EXTENDS Integers, Sequences, FiniteSets, TLC

VARIABLES
    state,                \* RaceManager.state
    horses,               \* RaceManager.horses (sequence of Horse records)
    raceSeed,             \* RaceManager.raceSeed
    raceTime,             \* RaceManager.raceTime (ms)
    photoFinishCaptured,  \* RaceManager.photoFinishCaptured
    pendingStarts,        \* number of startRace() calls suspended in showCountdown
    photoCalls,           \* history: callback invocations since the last resetRace()
    stopped,              \* history: stopRace() was called since the last resetRace()
    lastOp,               \* history: the last call, the state it started in, its deltaTime
    phase,                \* replay harness: "live", "run1" or "run2"
    log,                  \* replay harness: deltaTime values of the first run
    snap,                 \* replay harness: per-tick results of the first run
    pos,                  \* replay harness: ticks replayed in the second run
    edHorses,             \* HorseEditor.horses (sequence of HorseData records)
    edSeed,               \* HorseEditor.raceSeed
    edClock,              \* number of competitor ids the editor has handed out
    edOps,                \* history: number of editor operations so far
    file,                 \* the race configuration file last written or picked
    imp                   \* history: outcome of the last import attempt

mvars == <<state, horses, raceSeed, raceTime, photoFinishCaptured, pendingStarts>>
hvars == <<photoCalls, stopped, lastOp>>
rvars == <<phase, log, snap, pos>>
evars == <<edHorses, edSeed, edClock, edOps, file, imp>>
vars == <<state, horses, raceSeed, raceTime, photoFinishCaptured, pendingStarts,
          photoCalls, stopped, lastOp, phase, log, snap, pos,
          edHorses, edSeed, edClock, edOps, file, imp>>

----
\* Bounds of the model
MaxHorses == 3
MaxPending == 1
MaxRaceTime == 30000

\* deltaTime values (ms) handed to update(); performance.now() is monotonic, so >= 0
Deltas == {0, 2500}

\* race seeds the editor may hold
Seeds == {7, 42}

\* names and traits the editor gives the competitor at a roster index
Names == <<"Dasher", "Dancer", "Prancer", "Vixen", "Comet", "Cupid", "Donner", "Blitzen">>

StatsPool ==
    << [speed |-> 1000, stamina |-> 1000, acceleration |-> 1000],
       [speed |-> 800, stamina |-> 0, acceleration |-> 500] >>

----
\* Program constants
IDLE == "idle"
COUNTDOWN == "countdown"
RACING == "racing"
FINISHED == "finished"

NoTime == -1
TrackStraight == 40
TrackRadius == 15
PiMilli == 3142
DECELERATION_DISTANCE == 30
numSamples == 100

trackLength == TrackStraight * 2 + (PiMilli * TrackRadius * 2) \div 1000

----
\* Math.sin(x) * 10000 for x in milliradians, in 1/1000; Bhaskara's rational form
sinTimes10000(x) ==
    LET r == x % (2 * PiMilli)
        h == IF r < PiMilli THEN r ELSE r - PiMilli
        p == h * (PiMilli - h)
        den == (5 * PiMilli * PiMilli - 4 * p) \div 200000
        mag == (800 * p) \div den
    IN IF r < PiMilli THEN mag ELSE 0 - mag

\* x - Math.floor(x) of sin(seed) * 10000, a value in [0, 1)
seededRandom(seed) == sinTimes10000(seed) % 1000

----
\* horseStats.ts: sample i of the speed curve
sampleDistance(i) == (trackLength * i) \div numSamples

maxSpeedOf(data) == (data.baseSpeed * (600 + (data.speed * 700) \div 1000)) \div 1000

cruisingSpeedOf(data) == (maxSpeedOf(data) * 85) \div 100

calculateSpeedCurve(data, i) ==
    LET maxSpeed == maxSpeedOf(data)
        cruisingSpeed == cruisingSpeedOf(data)
        accelerationDistance == (trackLength * (150 - data.acceleration \div 10)) \div 1000
        midRaceEnd == (trackLength * 85) \div 100
        finalStretch == (trackLength * 15) \div 100
        distance == sampleDistance(i)
        startSpeed == (maxSpeed * 4) \div 10
    IN IF distance < accelerationDistance
       THEN LET t == (distance * 1000) \div accelerationDistance
                easeT == (((t * t) \div 1000) * (3000 - 2 * t)) \div 1000
            IN startSpeed + ((cruisingSpeed - startSpeed) * easeT) \div 1000
       ELSE IF distance < midRaceEnd
       THEN cruisingSpeed
       ELSE LET t == ((distance - midRaceEnd) * 1000) \div finalStretch
                pushSpeed == cruisingSpeed
                             + ((maxSpeed - cruisingSpeed) * (500 + data.stamina \div 2)) \div 1000
            IN cruisingSpeed + ((pushSpeed - cruisingSpeed) * t) \div 1000

\* horseStats.ts generateBaseSpeed: 6 + random * 4
generateBaseSpeed(seed, horseIndex) ==
    LET random == sinTimes10000(seed * 1000 + horseIndex * 12345679) % 1000
    IN 6000 + random * 4

\* horseEditor.ts addHorse: the HorseData created at a roster index
horseDataAt(seed, horseIndex) ==
    LET stats == StatsPool[(horseIndex % Len(StatsPool)) + 1]
    IN [name |-> Names[(horseIndex % Len(Names)) + 1],
        speed |-> stats.speed,
        stamina |-> stats.stamina,
        acceleration |-> stats.acceleration,
        baseSpeed |-> generateBaseSpeed(seed, horseIndex)]

\* the editor's roster of n competitors under a seed
rosterOf(seed, n) == [i \in 1..n |-> horseDataAt(seed, i - 1)]

\* raceManager.ts getSpeedAtDistance: the samples that bracket the distance
bracketing(distance) ==
    {i \in 0..(numSamples - 1) :
        distance >= sampleDistance(i) /\ distance <= sampleDistance(i + 1)}

\* linear interpolation inside the first bracketing pair, else the last sample
getSpeedAtDistance(data, distance) ==
    LET found == bracketing(distance)
    IN IF found = {}
       THEN calculateSpeedCurve(data, numSamples)
       ELSE LET i == CHOOSE k \in found : \A j \in found : k <= j
                t == ((distance - sampleDistance(i)) * 1000)
                     \div (sampleDistance(i + 1) - sampleDistance(i))
                s0 == calculateSpeedCurve(data, i)
                s1 == calculateSpeedCurve(data, i + 1)
            IN s0 + ((s1 - s0) * t) \div 1000

----
\* raceManager.ts setHorses: one entry of this.horses
finalKickOf(seed, index) == (seededRandom((seed + index * 7) * 1000) * 400) \div 1000 + 800

newHorse(data, seed, index) ==
    [data |-> data,
     progress |-> 0,
     currentSpeed |-> calculateSpeedCurve(data, 0),
     hasFinished |-> FALSE,
     finishTime |-> NoTime,
     finishSpeed |-> 0,
     speedVariance |-> 1000,
     varianceTimer |-> 0,
     finalKick |-> finalKickOf(seed, index)]

\* resetHorses that leaves the variance timer running
resetHorseKeepTimer(h) ==
    [h EXCEPT !.progress = 0,
              !.hasFinished = FALSE,
              !.finishTime = NoTime,
              !.finishSpeed = 0,
              !.currentSpeed = calculateSpeedCurve(h.data, 0),
              !.speedVariance = 1000]

\* resetHorses that forgets the finish time
resetHorseKeepFinishTime(h) ==
    [h EXCEPT !.progress = 0,
              !.hasFinished = FALSE,
              !.finishSpeed = 0,
              !.currentSpeed = calculateSpeedCurve(h.data, 0),
              !.speedVariance = 1000,
              !.varianceTimer = 0]

resetHorse(h) ==
    [h EXCEPT !.progress = 0,
              !.hasFinished = FALSE,
              !.finishTime = NoTime,
              !.finishSpeed = 0,
              !.currentSpeed = calculateSpeedCurve(h.data, 0),
              !.speedVariance = 1000,
              !.varianceTimer = 0]

resetHorses(hs) == [i \in DOMAIN hs |-> resetHorse(hs[i])]

setHorses(horseDataList, seed) ==
    resetHorses([i \in DOMAIN horseDataList |-> newHorse(horseDataList[i], seed, i - 1)])

isRacing == state = RACING \/ state = COUNTDOWN

RECURSIVE maxProgress(_, _, _)
maxProgress(hs, i, best) ==
    IF i > Len(hs) THEN best
    ELSE maxProgress(hs, i + 1, IF hs[i].progress > best THEN hs[i].progress ELSE best)

getLeadHorseProgress(hs) == IF Len(hs) = 0 THEN 0 ELSE maxProgress(hs, 1, 0)

----
\* a state guard that forgets the countdown
updateRunsUnlessIdle(st) == st # IDLE

\* raceManager.ts update: the state guard at its top
updateRuns(st) == st = RACING \/ st = FINISHED

\* a photo finish check without the one-shot flag
photoFinishFiresAlways(captured, st, hs) ==
    st = RACING /\ getLeadHorseProgress(hs) >= trackLength

\* update: the photo finish check made before the horses move
photoFinishFires(captured, st, hs) ==
    ~captured /\ st = RACING /\ getLeadHorseProgress(hs) >= trackLength

\* update: variance re-roll of a horse that has not finished
varianceRangeOf(data) == (150 * (1000 - data.stamina \div 2)) \div 1000

rerolledTimer(seed, horseIndex, progress) ==
    1000 + seededRandom((seed + horseIndex + progress) * 1000) * 2

\* a re-roll that spreads the random factor over [-1, 1) before doubling it
rerolledVarianceTwice(data, seed, horseIndex, progress) ==
    LET randomFactor == seededRandom((seed + horseIndex + progress + 1000) * 1000)
    IN 1000 + ((randomFactor * 2 - 1000) * 2 * varianceRangeOf(data)) \div 1000

rerolledVariance(data, seed, horseIndex, progress) ==
    LET randomFactor == seededRandom((seed + horseIndex + progress + 1000) * 1000)
    IN 1000 + ((randomFactor - 500) * 2 * varianceRangeOf(data)) \div 1000

\* a final stretch that fades the speed out towards the line instead of kicking
racingSpeedFadesOut(h, variance) ==
    LET baseSpeed == getSpeedAtDistance(h.data, h.progress)
        finalSpeed == (baseSpeed * variance) \div 1000
        progressRatio == (h.progress * 1000) \div trackLength
        finalStretchBoost == 1000 - ((progressRatio - 850) * 1000) \div 150
    IN IF progressRatio > 850 THEN (finalSpeed * finalStretchBoost) \div 1000 ELSE finalSpeed

\* update: speed of a horse that has not finished
racingSpeed(h, variance) ==
    LET baseSpeed == getSpeedAtDistance(h.data, h.progress)
        finalSpeed == (baseSpeed * variance) \div 1000
        progressRatio == (h.progress * 1000) \div trackLength
        finalStretchBoost == 1000 + ((h.finalKick - 1000) * (progressRatio - 850)) \div 150
    IN IF progressRatio > 850 THEN (finalSpeed * finalStretchBoost) \div 1000 ELSE finalSpeed

\* a deceleration that eases with 2t, which overshoots zero past half the distance
decelerationSpeedLinear(finishSpeed, distancePastFinish) ==
    IF distancePastFinish < DECELERATION_DISTANCE
    THEN LET t == (distancePastFinish * 1000) \div DECELERATION_DISTANCE
         IN (finishSpeed * (1000 - 2 * t)) \div 1000
    ELSE 0

\* update: speed of a horse that has finished and is decelerating
decelerationSpeed(finishSpeed, distancePastFinish) ==
    IF distancePastFinish < DECELERATION_DISTANCE
    THEN LET t == (distancePastFinish * 1000) \div DECELERATION_DISTANCE
             oneMinusEaseOut == ((1000 - t) * (1000 - t)) \div 1000
         IN (finishSpeed * oneMinusEaseOut) \div 1000
    ELSE 0

\* a crossing check that forgets the horse has already finished
crossedFinishLineAgain(h, progress) == progress >= trackLength

\* update: "just crossed finish line this frame"
crossedFinishLine(h, progress) == progress >= trackLength /\ ~h.hasFinished

\* a tick that records the speed of the previous tick as the finish speed
updateHorseStaleSpeed(h, horseIndex, seed, time, deltaTime) ==
    LET timer == h.varianceTimer - deltaTime
        reroll == ~h.hasFinished /\ timer <= 0
        varianceTimer == IF h.hasFinished THEN h.varianceTimer
                         ELSE IF reroll THEN rerolledTimer(seed, horseIndex, h.progress)
                         ELSE timer
        speedVariance == IF reroll THEN rerolledVariance(h.data, seed, horseIndex, h.progress)
                         ELSE h.speedVariance
        currentSpeed == IF h.hasFinished
                        THEN decelerationSpeed(h.finishSpeed, h.progress - trackLength)
                        ELSE racingSpeed(h, speedVariance)
        progress == h.progress + (currentSpeed * deltaTime) \div 1000000
        crossed == crossedFinishLine(h, progress)
    IN [h EXCEPT !.varianceTimer = varianceTimer,
                 !.speedVariance = speedVariance,
                 !.currentSpeed = currentSpeed,
                 !.progress = progress,
                 !.hasFinished = h.hasFinished \/ crossed,
                 !.finishTime = IF crossed THEN time ELSE h.finishTime,
                 !.finishSpeed = IF crossed THEN h.currentSpeed ELSE h.finishSpeed]

\* update: the body of this.horses.forEach for one horse
updateHorse(h, horseIndex, seed, time, deltaTime) ==
    LET timer == h.varianceTimer - deltaTime
        reroll == ~h.hasFinished /\ timer <= 0
        varianceTimer == IF h.hasFinished THEN h.varianceTimer
                         ELSE IF reroll THEN rerolledTimer(seed, horseIndex, h.progress)
                         ELSE timer
        speedVariance == IF reroll THEN rerolledVariance(h.data, seed, horseIndex, h.progress)
                         ELSE h.speedVariance
        currentSpeed == IF h.hasFinished
                        THEN decelerationSpeed(h.finishSpeed, h.progress - trackLength)
                        ELSE racingSpeed(h, speedVariance)
        progress == h.progress + (currentSpeed * deltaTime) \div 1000000
        crossed == crossedFinishLine(h, progress)
    IN [h EXCEPT !.varianceTimer = varianceTimer,
                 !.speedVariance = speedVariance,
                 !.currentSpeed = currentSpeed,
                 !.progress = progress,
                 !.hasFinished = h.hasFinished \/ crossed,
                 !.finishTime = IF crossed THEN time ELSE h.finishTime,
                 !.finishSpeed = IF crossed THEN currentSpeed ELSE h.finishSpeed]

allFinished(hs) == \A i \in DOMAIN hs : hs[i].hasFinished

----
\* a comparator that ranks unfinished horses by ascending progress
compareEntriesAscending(a, b) ==
    IF a.hasFinished /\ b.hasFinished
    THEN (IF a.finishTime = NoTime THEN 0 ELSE a.finishTime)
         - (IF b.finishTime = NoTime THEN 0 ELSE b.finishTime)
    ELSE IF a.hasFinished THEN -1
    ELSE IF b.hasFinished THEN 1
    ELSE a.progress - b.progress

\* a comparator that settles equal finish times by the distance covered
compareEntriesByDistance(a, b) ==
    IF a.hasFinished /\ b.hasFinished
    THEN IF a.finishTime = b.finishTime
         THEN b.progress - a.progress
         ELSE (IF a.finishTime = NoTime THEN 0 ELSE a.finishTime)
              - (IF b.finishTime = NoTime THEN 0 ELSE b.finishTime)
    ELSE IF a.hasFinished THEN -1
    ELSE IF b.hasFinished THEN 1
    ELSE b.progress - a.progress

\* raceManager.ts getLeaderboard: the comparator and the (stable) sort
compareEntries(a, b) ==
    IF a.hasFinished /\ b.hasFinished
    THEN (IF a.finishTime = NoTime THEN 0 ELSE a.finishTime)
         - (IF b.finishTime = NoTime THEN 0 ELSE b.finishTime)
    ELSE IF a.hasFinished THEN -1
    ELSE IF b.hasFinished THEN 1
    ELSE b.progress - a.progress

\* an insertion that moves a new entry ahead of the entries it ties with
RECURSIVE insertSortedUnstable(_, _, _)
insertSortedUnstable(hs, sorted, x) ==
    IF Len(sorted) = 0 THEN <<x>>
    ELSE IF compareEntries(hs[sorted[Len(sorted)]], hs[x]) >= 0
    THEN Append(insertSortedUnstable(hs, SubSeq(sorted, 1, Len(sorted) - 1), x),
                sorted[Len(sorted)])
    ELSE Append(sorted, x)

RECURSIVE insertSorted(_, _, _)
insertSorted(hs, sorted, x) ==
    IF Len(sorted) = 0 THEN <<x>>
    ELSE IF compareEntries(hs[sorted[Len(sorted)]], hs[x]) > 0
    THEN Append(insertSorted(hs, SubSeq(sorted, 1, Len(sorted) - 1), x), sorted[Len(sorted)])
    ELSE Append(sorted, x)

RECURSIVE sortIndices(_, _)
sortIndices(hs, n) ==
    IF n = 0 THEN <<>> ELSE insertSorted(hs, sortIndices(hs, n - 1), n)

\* the roster indices in leaderboard order
leaderboardOrder(hs) == sortIndices(hs, Len(hs))

getLeaderboard(hs) ==
    LET order == leaderboardOrder(hs)
    IN [k \in DOMAIN order |->
           [position |-> k, name |-> hs[order[k]].data.name, progress |-> hs[order[k]].progress]]

----
\* JSON values.  A number is whole + milli / 1000 with 0 <= milli < 1000, so that
\* 0xFFFFFF and the thousandths of the traits both fit; it is an integer when
\* milli = 0.  A key an object lacks reads as undefined.
JNum(whole, milli) == [t |-> "number", whole |-> whole, milli |-> milli]
JStr(str) == [t |-> "string", str |-> str]
JArr(items) == [t |-> "array", items |-> items]
JObj(fields) == [t |-> "object", fields |-> fields]
JNull == [t |-> "null"]
JUndefined == [t |-> "undefined"]

field(v, key) == IF key \in DOMAIN v.fields THEN v.fields[key] ELSE JUndefined

\* a number held in thousandths, to JSON and back
milliToJson(m) == JNum(m \div 1000, m % 1000)
jsonToMilli(v) == v.whole * 1000 + v.milli

numAtLeast(v, whole) == v.whole >= whole
numAtMost(v, whole) == v.whole < whole \/ (v.whole = whole /\ v.milli = 0)

\* raceConfigSchema: the closed enumerations and the limits of the schema
HatTypes == {"horse-ears", "reindeer-antlers", "top-hat", "crown", "propeller-hat"}
FaceTypes == {"happy", "innocent", "red-nose", "angry", "shocked", "glasses"}
MinBaseSpeed == 6
MaxBaseSpeed == 10
MaxColor == 16777215
MinRoster == 1
MaxRoster == 8

\* validateRaceConfig: `${path}: ${issue.message}`, the path joined with '.'
issue(path, message) == path \o ": " \o message

\* a range check that takes the upper limit as exclusive
numberIssuesInexact(v, path, lo, hi) ==
    IF v.t = "undefined" THEN <<issue(path, "Required")>>
    ELSE IF v.t # "number" THEN <<issue(path, "Expected number")>>
    ELSE (IF v.whole < lo THEN <<issue(path, "Number too small")>> ELSE <<>>)
         \o (IF v.whole >= hi THEN <<issue(path, "Number too big")>> ELSE <<>>)

\* z.number().min(lo).max(hi)
numberIssues(v, path, lo, hi) ==
    IF v.t = "undefined" THEN <<issue(path, "Required")>>
    ELSE IF v.t # "number" THEN <<issue(path, "Expected number")>>
    ELSE (IF ~numAtLeast(v, lo) THEN <<issue(path, "Number too small")>> ELSE <<>>)
         \o (IF ~numAtMost(v, hi) THEN <<issue(path, "Number too big")>> ELSE <<>>)

\* z.number().int(), with .min(lo).max(hi) when bounded
integerIssues(v, path, bounded, lo, hi) ==
    IF v.t = "undefined" THEN <<issue(path, "Required")>>
    ELSE IF v.t # "number" THEN <<issue(path, "Expected number")>>
    ELSE (IF v.milli # 0 THEN <<issue(path, "Expected integer")>> ELSE <<>>)
         \o (IF bounded /\ ~numAtLeast(v, lo) THEN <<issue(path, "Number too small")>> ELSE <<>>)
         \o (IF bounded /\ ~numAtMost(v, hi) THEN <<issue(path, "Number too big")>> ELSE <<>>)

\* z.string()
stringIssues(v, path) ==
    IF v.t = "undefined" THEN <<issue(path, "Required")>>
    ELSE IF v.t # "string" THEN <<issue(path, "Expected string")>>
    ELSE <<>>

\* z.enum([...]) and z.literal(...)
enumIssues(v, path, values) ==
    IF v.t = "undefined" THEN <<issue(path, "Required")>>
    ELSE IF v.t # "string" \/ v.str \notin values THEN <<issue(path, "Invalid enum value")>>
    ELSE <<>>

literalIssues(v, path, value) ==
    IF v.t # "string" \/ v.str # value THEN <<issue(path, "Invalid literal value")>>
    ELSE <<>>

\* HorseStatsSchema
statsIssues(v, path) ==
    IF v.t = "undefined" THEN <<issue(path, "Required")>>
    ELSE IF v.t # "object" THEN <<issue(path, "Expected object")>>
    ELSE numberIssues(field(v, "speed"), path \o ".speed", 0, 1)
         \o numberIssues(field(v, "stamina"), path \o ".stamina", 0, 1)
         \o numberIssues(field(v, "acceleration"), path \o ".acceleration", 0, 1)

\* HorseDataSchema
horseIssues(v, path) ==
    IF v.t = "undefined" THEN <<issue(path, "Required")>>
    ELSE IF v.t # "object" THEN <<issue(path, "Expected object")>>
    ELSE stringIssues(field(v, "id"), path \o ".id")
         \o stringIssues(field(v, "name"), path \o ".name")
         \o statsIssues(field(v, "stats"), path \o ".stats")
         \o numberIssues(field(v, "baseSpeed"), path \o ".baseSpeed", MinBaseSpeed, MaxBaseSpeed)
         \o integerIssues(field(v, "color"), path \o ".color", TRUE, 0, MaxColor)
         \o enumIssues(field(v, "hat"), path \o ".hat", HatTypes)
         \o enumIssues(field(v, "face"), path \o ".face", FaceTypes)

RECURSIVE itemIssues(_, _)
itemIssues(items, n) ==
    IF n = 0 THEN <<>>
    ELSE itemIssues(items, n - 1) \o horseIssues(items[n], "horses." \o ToString(n - 1))

\* z.array(HorseDataSchema).min(1).max(8)
rosterIssues(v) ==
    IF v.t = "undefined" THEN <<issue("horses", "Required")>>
    ELSE IF v.t # "array" THEN <<issue("horses", "Expected array")>>
    ELSE (IF Len(v.items) < MinRoster THEN <<issue("horses", "Array too small")>> ELSE <<>>)
         \o (IF Len(v.items) > MaxRoster THEN <<issue("horses", "Array too big")>> ELSE <<>>)
         \o itemIssues(v.items, Len(v.items))

\* RaceConfigSchema
configIssues(v) ==
    IF v.t # "object" THEN <<issue("root", "Expected object")>>
    ELSE literalIssues(field(v, "version"), "version", "1.0")
         \o integerIssues(field(v, "raceSeed"), "raceSeed", FALSE, 0, 0)
         \o rosterIssues(field(v, "horses"))

\* the typed value RaceConfigSchema.parse returns: the schema's keys only
parsedHorse(v) ==
    [id |-> v.fields.id.str,
     name |-> v.fields.name.str,
     stats |-> [speed |-> jsonToMilli(v.fields.stats.fields.speed),
                stamina |-> jsonToMilli(v.fields.stats.fields.stamina),
                acceleration |-> jsonToMilli(v.fields.stats.fields.acceleration)],
     baseSpeed |-> jsonToMilli(v.fields.baseSpeed),
     color |-> v.fields.color.whole,
     hat |-> v.fields.hat.str,
     face |-> v.fields.face.str]

parsedConfig(v) ==
    [version |-> v.fields.version.str,
     raceSeed |-> v.fields.raceSeed.whole,
     horses |-> [i \in DOMAIN v.fields.horses.items |-> parsedHorse(v.fields.horses.items[i])]]

validateRaceConfig(data) ==
    LET issues == configIssues(data)
    IN IF issues = <<>>
       THEN [success |-> TRUE, data |-> parsedConfig(data)]
       ELSE [success |-> FALSE, error |-> "Invalid race configuration file", issues |-> issues]

\* horseEditor.ts exportRace: JSON.stringify of { version, raceSeed, horses }
horseToJson(h) ==
    JObj([id |-> JStr(h.id),
          name |-> JStr(h.name),
          stats |-> JObj([speed |-> milliToJson(h.stats.speed),
                          stamina |-> milliToJson(h.stats.stamina),
                          acceleration |-> milliToJson(h.stats.acceleration)]),
          baseSpeed |-> milliToJson(h.baseSpeed),
          color |-> JNum(h.color, 0),
          hat |-> JStr(h.hat),
          face |-> JStr(h.face)])

exportRace(hs, seed) ==
    JObj([version |-> JStr("1.0"),
          raceSeed |-> JNum(seed, 0),
          horses |-> JArr([i \in DOMAIN hs |-> horseToJson(hs[i])])])

\* text that JSON.parse rejects
NotJson == [t |-> "notjson"]

----
\* No file written or picked yet, no import attempted yet
NoFile == [t |-> "nofile"]
NoImport == [attempted |-> FALSE]

\* the editor as main.ts leaves it when its panel is not used: an empty list
editorIdle ==
    /\ edHorses = <<>>
    /\ edSeed = 0
    /\ edClock = 0
    /\ edOps = 0
    /\ file = NoFile
    /\ imp = NoImport

----
\* State after construction (main.ts): an empty RaceManager, no race started
Init ==
    /\ state = IDLE
    /\ horses = <<>>
    /\ raceSeed = 0
    /\ raceTime = 0
    /\ photoFinishCaptured = FALSE
    /\ pendingStarts = 0
    /\ photoCalls = 0
    /\ stopped = FALSE
    /\ lastOp = [op |-> "init", from |-> IDLE, dt |-> 0]
    /\ phase = "live"
    /\ log = <<>>
    /\ snap = <<>>
    /\ pos = 0
    /\ editorIdle

\* startRace(), up to its await
mStartRace ==
    /\ state = IDLE
    /\ pendingStarts < MaxPending
    /\ horses' = resetHorses(horses)
    /\ raceTime' = 0
    /\ state' = COUNTDOWN
    /\ pendingStarts' = pendingStarts + 1
    /\ UNCHANGED <<raceSeed, photoFinishCaptured, photoCalls, stopped>>

\* showCountdown resolves (its four timers only drive the overlay) and the
\* suspended startRace() resumes: it sets the state to RACING unconditionally
mCountdownComplete ==
    /\ pendingStarts > 0
    /\ pendingStarts' = pendingStarts - 1
    /\ state' = RACING
    /\ UNCHANGED <<horses, raceSeed, raceTime, photoFinishCaptured, photoCalls, stopped>>

\* a race clock that keeps running after the race has finished
raceTimeAfterAnyState(st, time, deltaTime) == time + deltaTime

\* update: "Update race time (only during racing, not after finished)"
raceTimeAfter(st, time, deltaTime) == IF st = RACING THEN time + deltaTime ELSE time

\* a transition to FINISHED as soon as one horse has finished
raceIsOverWhenOneFinished(st, hs) == st = RACING /\ \E i \in DOMAIN hs : hs[i].hasFinished

\* update: "Check if race should transition to finished (all crossed line)"
raceIsOver(st, hs) == allFinished(hs) /\ st = RACING

\* update(deltaTime)
mUpdate(deltaTime) ==
    IF ~updateRuns(state)
    THEN UNCHANGED <<state, horses, raceSeed, raceTime, photoFinishCaptured, pendingStarts,
                     photoCalls, stopped>>
    ELSE LET time == raceTimeAfter(state, raceTime, deltaTime)
             fires == photoFinishFires(photoFinishCaptured, state, horses)
             moved == [i \in DOMAIN horses |->
                          updateHorse(horses[i], i - 1, raceSeed, time, deltaTime)]
         IN /\ raceTime' = time
            /\ photoFinishCaptured' = (photoFinishCaptured \/ fires)
            /\ photoCalls' = IF fires THEN photoCalls + 1 ELSE photoCalls
            /\ horses' = moved
            /\ state' = IF raceIsOver(state, moved) THEN FINISHED ELSE state
            /\ UNCHANGED <<raceSeed, pendingStarts, stopped>>

\* a resetRace() that leaves the photo-finish flag set
mResetRaceKeepPhoto ==
    /\ state' = IDLE
    /\ raceTime' = 0
    /\ horses' = resetHorses(horses)
    /\ stopped' = FALSE
    /\ UNCHANGED <<raceSeed, pendingStarts, photoFinishCaptured, photoCalls>>

\* resetRace()
mResetRace ==
    /\ state' = IDLE
    /\ raceTime' = 0
    /\ photoFinishCaptured' = FALSE
    /\ horses' = resetHorses(horses)
    /\ photoCalls' = 0
    /\ stopped' = FALSE
    /\ UNCHANGED <<raceSeed, pendingStarts>>

\* stopRace()
mStopRace ==
    /\ state' = FINISHED
    /\ stopped' = TRUE
    /\ UNCHANGED <<horses, raceSeed, raceTime, photoFinishCaptured, pendingStarts, photoCalls>>

\* setHorses(horseDataList, raceSeed)
mSetHorses(horseDataList, seed) ==
    /\ horses' = setHorses(horseDataList, seed)
    /\ raceSeed' = seed
    /\ UNCHANGED <<state, raceTime, photoFinishCaptured, pendingStarts, photoCalls, stopped>>

\* a callback that replaces the roster and forgets resetRace()
mOnHorsesChangeNoReset(horseDataList, seed) ==
    /\ horses' = setHorses(horseDataList, seed)
    /\ raceSeed' = seed
    /\ UNCHANGED <<state, raceTime, photoFinishCaptured, pendingStarts, photoCalls, stopped>>

\* main.ts: the onHorsesChange callback, setHorses() followed by resetRace()
mOnHorsesChange(horseDataList, seed) ==
    /\ horses' = resetHorses(setHorses(horseDataList, seed))
    /\ raceSeed' = seed
    /\ state' = IDLE
    /\ raceTime' = 0
    /\ photoFinishCaptured' = FALSE
    /\ photoCalls' = 0
    /\ stopped' = FALSE
    /\ UNCHANGED pendingStarts

----
\* The program: key handlers, the countdown timers and the animation loop of main.ts
\* key 'p': startRace() when not isRacing() and the roster is not empty
StartRace ==
    /\ ~isRacing
    /\ Len(horses) > 0
    /\ mStartRace
    /\ lastOp' = [op |-> "startRace", from |-> state, dt |-> 0]
    /\ UNCHANGED rvars
    /\ UNCHANGED evars

CountdownComplete ==
    /\ mCountdownComplete
    /\ lastOp' = [op |-> "countdown", from |-> state, dt |-> 0]
    /\ UNCHANGED rvars
    /\ UNCHANGED evars

Update ==
    /\ \E deltaTime \in Deltas :
          /\ mUpdate(deltaTime)
          /\ lastOp' = [op |-> "update", from |-> state, dt |-> deltaTime]
    /\ UNCHANGED rvars
    /\ UNCHANGED evars

\* key 'r': resetRace() when the roster is not empty
ResetRace ==
    /\ Len(horses) > 0
    /\ mResetRace
    /\ lastOp' = [op |-> "resetRace", from |-> state, dt |-> 0]
    /\ UNCHANGED rvars
    /\ UNCHANGED evars

\* key 'w': stopRace() when isRacing()
StopRace ==
    /\ isRacing
    /\ mStopRace
    /\ lastOp' = [op |-> "stopRace", from |-> state, dt |-> 0]
    /\ UNCHANGED rvars
    /\ UNCHANGED evars

OnHorsesChange ==
    /\ \E n \in 0..MaxHorses, seed \in Seeds : mOnHorsesChange(rosterOf(seed, n), seed)
    /\ lastOp' = [op |-> "onHorsesChange", from |-> state, dt |-> 0]
    /\ UNCHANGED rvars
    /\ UNCHANGED evars

Next ==
    \/ StartRace
    \/ CountdownComplete
    \/ Update
    \/ ResetRace
    \/ StopRace
    \/ OnHorsesChange

Spec == Init /\ [][Next]_vars

----
\* The RaceManager driven through its public methods in any order
ApiStartRace ==
    /\ mStartRace
    /\ lastOp' = [op |-> "startRace", from |-> state, dt |-> 0]
    /\ UNCHANGED rvars
    /\ UNCHANGED evars

ApiResetRace ==
    /\ mResetRace
    /\ lastOp' = [op |-> "resetRace", from |-> state, dt |-> 0]
    /\ UNCHANGED rvars
    /\ UNCHANGED evars

ApiStopRace ==
    /\ mStopRace
    /\ lastOp' = [op |-> "stopRace", from |-> state, dt |-> 0]
    /\ UNCHANGED rvars
    /\ UNCHANGED evars

ApiSetHorses ==
    /\ \E n \in 0..MaxHorses, seed \in Seeds : mSetHorses(rosterOf(seed, n), seed)
    /\ lastOp' = [op |-> "setHorses", from |-> state, dt |-> 0]
    /\ UNCHANGED rvars
    /\ UNCHANGED evars

\* update() while the race clock is below the bound of the model
ApiUpdate ==
    /\ raceTime < MaxRaceTime
    /\ Update

NextApi ==
    \/ ApiStartRace
    \/ CountdownComplete
    \/ ApiUpdate
    \/ ApiResetRace
    \/ ApiStopRace
    \/ ApiSetHorses

SpecApi == Init /\ [][NextApi]_vars

----
\* Replay: a race is run once from a fresh reset while its deltaTime values and
\* per-tick results are recorded, then reset and run again on the recorded values
MaxTicks == 4

ReplayDeltas == {0, 2500, 8000}

results(hs) == [i \in DOMAIN hs |-> [progress |-> hs[i].progress, finishTime |-> hs[i].finishTime]]

InitReplay ==
    /\ \E n \in 1..MaxHorses, seed \in Seeds :
          /\ horses = resetHorses(setHorses(rosterOf(seed, n), seed))
          /\ raceSeed = seed
    /\ state = IDLE
    /\ raceTime = 0
    /\ photoFinishCaptured = FALSE
    /\ pendingStarts = 0
    /\ photoCalls = 0
    /\ stopped = FALSE
    /\ lastOp = [op |-> "onHorsesChange", from |-> IDLE, dt |-> 0]
    /\ phase = "run1"
    /\ log = <<>>
    /\ snap = <<>>
    /\ pos = 0
    /\ editorIdle

ReplayStart ==
    /\ mStartRace
    /\ lastOp' = [op |-> "startRace", from |-> state, dt |-> 0]
    /\ UNCHANGED rvars
    /\ UNCHANGED evars

ReplayCountdown ==
    /\ mCountdownComplete
    /\ lastOp' = [op |-> "countdown", from |-> state, dt |-> 0]
    /\ UNCHANGED rvars
    /\ UNCHANGED evars

ReplayRecord ==
    /\ phase = "run1"
    /\ state = RACING \/ state = FINISHED
    /\ Len(log) < MaxTicks
    /\ \E deltaTime \in ReplayDeltas :
          /\ mUpdate(deltaTime)
          /\ lastOp' = [op |-> "update", from |-> state, dt |-> deltaTime]
          /\ log' = Append(log, deltaTime)
    /\ snap' = Append(snap, results(horses'))
    /\ UNCHANGED <<phase, pos>>
    /\ UNCHANGED evars

ReplayReset ==
    /\ phase = "run1"
    /\ Len(log) > 0
    /\ mResetRace
    /\ lastOp' = [op |-> "resetRace", from |-> state, dt |-> 0]
    /\ phase' = "run2"
    /\ UNCHANGED <<log, snap, pos>>
    /\ UNCHANGED evars

ReplayTick ==
    /\ phase = "run2"
    /\ state = RACING \/ state = FINISHED
    /\ pos < Len(log)
    /\ mUpdate(log[pos + 1])
    /\ lastOp' = [op |-> "update", from |-> state, dt |-> log[pos + 1]]
    /\ pos' = pos + 1
    /\ UNCHANGED <<phase, log, snap>>
    /\ UNCHANGED evars

NextReplay ==
    \/ ReplayStart
    \/ ReplayCountdown
    \/ ReplayRecord
    \/ ReplayReset
    \/ ReplayTick

SpecReplay == InitReplay /\ [][NextReplay]_vars

----
\* Replay under another frame rate: the race is recorded as above, then reset and
\* run again while the animation loop supplies deltaTime values of its own
ReplayResetAny ==
    /\ phase = "run1"
    /\ Len(log) > 0
    /\ mResetRace
    /\ lastOp' = [op |-> "resetRace", from |-> state, dt |-> 0]
    /\ phase' = "any"
    /\ UNCHANGED <<log, snap, pos>>
    /\ UNCHANGED evars

ReplayAnyTick ==
    /\ phase = "any"
    /\ state = RACING \/ state = FINISHED
    /\ pos < MaxTicks
    /\ \E deltaTime \in ReplayDeltas :
          /\ mUpdate(deltaTime)
          /\ lastOp' = [op |-> "update", from |-> state, dt |-> deltaTime]
    /\ pos' = pos + 1
    /\ UNCHANGED <<phase, log, snap>>
    /\ UNCHANGED evars

NextReplayAny ==
    \/ ReplayStart
    \/ ReplayCountdown
    \/ ReplayRecord
    \/ ReplayResetAny
    \/ ReplayAnyTick

SpecReplayAny == InitReplay /\ [][NextReplayAny]_vars

----
\* A race left to run: the roster is set, the race is started and the animation
\* loop keeps calling update() with a positive deltaTime while the race clock is
\* below the bound of the model; no stopRace(), no resetRace()
MaxRaceClock == 60000

RaceDeltas == {2500, 8000}

RaceTick ==
    /\ raceTime < MaxRaceClock
    /\ \E deltaTime \in RaceDeltas :
          /\ mUpdate(deltaTime)
          /\ lastOp' = [op |-> "update", from |-> state, dt |-> deltaTime]
    /\ UNCHANGED rvars
    /\ UNCHANGED evars

NextRace ==
    \/ ReplayStart
    \/ ReplayCountdown
    \/ RaceTick

\* requestAnimationFrame reschedules animate() on every frame
SpecRace == InitReplay /\ [][NextRace]_vars /\ WF_vars(RaceTick)

----
\* The editor (horseEditor.ts) wired to the RaceManager by main.ts
MaxEdOps == 2
MaxEdRaceTime == 1000

FullRace == 8
MaxEditorHorses == 8

colors ==
    <<16739179, 5164484, 16770669, 9822675, 15958401, 11179738, 16562899, 11065578>>

generateHorseColor(index) == colors[(index % Len(colors)) + 1]

\* `horse-${Date.now()}-${Math.random()}`: an id no competitor was given before
newId(clock) == "horse-" \o ToString(clock)

\* what the random name pick may return, and the hats and faces in the order of
\* randomizeFullRace
EdNames == {"Dasher", "Dancer"}
hats == <<"horse-ears", "reindeer-antlers", "top-hat", "crown", "propeller-hat">>
faces == <<"happy", "innocent", "red-nose", "angry", "shocked", "glasses">>

\* the rows of the list the user clicks: the first and the last
EdTargets(hs) == {i \in DOMAIN hs : i = 1 \/ i = Len(hs)}

\* parseFloat of a stat input: not a number, or a number in thousandths
NaN == [t |-> "nan"]
StatInputs == {NaN, [t |-> "num", milli |-> 0], [t |-> "num", milli |-> 250],
               [t |-> "num", milli |-> 1500], [t |-> "num", milli |-> -200]}

\* values the seed input may parse to (parseInt(value) || 0)
SeedInputs == Seeds \cup {0}

\* the forms saveHorseEdits may read
EditForms ==
    { [name |-> "Rudolph", speed |-> [t |-> "num", milli |-> 1500], stamina |-> NaN,
       acceleration |-> [t |-> "num", milli |-> -200], hat |-> "crown", face |-> "glasses"],
      [name |-> "", speed |-> [t |-> "num", milli |-> 0],
       stamina |-> [t |-> "num", milli |-> 250],
       acceleration |-> [t |-> "num", milli |-> 1000], hat |-> "top-hat", face |-> "angry"] }

\* clamp(parseFloat(input.value) || 0.5, 0, 1)
clamp(value, min, max) ==
    LET capped == IF value < max THEN value ELSE max
    IN IF capped > min THEN capped ELSE min

orHalf(input) == IF input.t = "nan" \/ input.milli = 0 THEN 500 ELSE input.milli

statOf(input) == clamp(orHalf(input), 0, 1000)

\* the HorseData the manager reads: name, traits and baseSpeed
managerData(h) ==
    [name |-> h.name,
     speed |-> h.stats.speed,
     stamina |-> h.stats.stamina,
     acceleration |-> h.stats.acceleration,
     baseSpeed |-> h.baseSpeed]

managerList(hs) == [i \in DOMAIN hs |-> managerData(hs[i])]

\* notifyHorsesChanged: the callback main.ts registered
notifyHorsesChanged(hs, seed) == mOnHorsesChange(managerList(hs), seed)

regenerated(hs, seed) ==
    [i \in DOMAIN hs |-> [hs[i] EXCEPT !.baseSpeed = generateBaseSpeed(seed, i - 1)]]

\* construction: an empty list under a random seed, next to an empty RaceManager
InitEditor ==
    /\ state = IDLE
    /\ horses = <<>>
    /\ raceSeed = 0
    /\ raceTime = 0
    /\ photoFinishCaptured = FALSE
    /\ pendingStarts = 0
    /\ photoCalls = 0
    /\ stopped = FALSE
    /\ lastOp = [op |-> "init", from |-> IDLE, dt |-> 0]
    /\ phase = "live"
    /\ log = <<>>
    /\ snap = <<>>
    /\ pos = 0
    /\ edHorses = <<>>
    /\ edSeed \in Seeds
    /\ edClock = 0
    /\ edOps = 0
    /\ file = NoFile
    /\ imp = NoImport

\* addHorse()
EdAddHorse ==
    /\ edOps < MaxEdOps
    /\ Len(edHorses) < MaxEditorHorses
    /\ \E name \in EdNames :
          LET horseIndex == Len(edHorses)
              horse == [id |-> newId(edClock),
                        name |-> name,
                        stats |-> StatsPool[(horseIndex % Len(StatsPool)) + 1],
                        baseSpeed |-> generateBaseSpeed(edSeed, horseIndex),
                        color |-> generateHorseColor(horseIndex),
                        hat |-> "horse-ears",
                        face |-> "happy"]
          IN /\ edHorses' = Append(edHorses, horse)
             /\ notifyHorsesChanged(edHorses', edSeed)
    /\ edClock' = edClock + 1
    /\ edOps' = edOps + 1
    /\ imp' = NoImport
    /\ lastOp' = [op |-> "addHorse", from |-> state, dt |-> 0]
    /\ file' = NoFile
    /\ UNCHANGED edSeed
    /\ UNCHANGED rvars

\* deleteHorse(horseId)
EdDeleteHorse ==
    /\ edOps < MaxEdOps
    /\ \E i \in EdTargets(edHorses) :
          /\ edHorses' = SelectSeq(edHorses, LAMBDA h : h.id # edHorses[i].id)
          /\ notifyHorsesChanged(edHorses', edSeed)
    /\ edOps' = edOps + 1
    /\ imp' = NoImport
    /\ lastOp' = [op |-> "deleteHorse", from |-> state, dt |-> 0]
    /\ file' = NoFile
    /\ UNCHANGED <<edSeed, edClock>>
    /\ UNCHANGED rvars

\* randomizeFullRace(): eight new competitors
EdRandomizeFullRace ==
    /\ edOps < MaxEdOps
    /\ \E name \in EdNames :
          /\ edHorses' = [i \in 1..FullRace |->
                            [id |-> newId(edClock + i - 1),
                             name |-> IF i = 2 THEN name ELSE Names[i],
                             stats |-> StatsPool[(i % Len(StatsPool)) + 1],
                             baseSpeed |-> generateBaseSpeed(edSeed, i - 1),
                             color |-> generateHorseColor(i - 1),
                             hat |-> hats[(i % Len(hats)) + 1],
                             face |-> faces[(i % Len(faces)) + 1]]]
          /\ notifyHorsesChanged(edHorses', edSeed)
    /\ edClock' = edClock + FullRace
    /\ edOps' = edOps + 1
    /\ imp' = NoImport
    /\ lastOp' = [op |-> "randomizeFullRace", from |-> state, dt |-> 0]
    /\ file' = NoFile
    /\ UNCHANGED edSeed
    /\ UNCHANGED rvars

\* saveHorseEdits() on the competitor being edited
EdSaveHorseEdits ==
    /\ edOps < MaxEdOps
    /\ \E i \in EdTargets(edHorses), form \in EditForms :
          LET horse == edHorses[i]
              newSpeed == statOf(form.speed)
              edited == [horse EXCEPT
                            !.name = form.name,
                            !.stats = [speed |-> newSpeed,
                                       stamina |-> statOf(form.stamina),
                                       acceleration |-> statOf(form.acceleration)],
                            !.hat = form.hat,
                            !.face = form.face,
                            !.baseSpeed = IF horse.stats.speed # newSpeed
                                          THEN generateBaseSpeed(edSeed, i - 1)
                                          ELSE horse.baseSpeed]
          IN /\ edHorses' = [edHorses EXCEPT ![i] = edited]
             /\ notifyHorsesChanged(edHorses', edSeed)
             /\ lastOp' = [op |-> "saveHorseEdits", from |-> state, dt |-> 0,
                           row |-> i, form |-> form]
    /\ edOps' = edOps + 1
    /\ imp' = NoImport
    /\ file' = NoFile
    /\ UNCHANGED <<edSeed, edClock>>
    /\ UNCHANGED rvars

\* the seed input's change listener
EdSeedChange ==
    /\ edOps < MaxEdOps
    /\ \E newSeed \in SeedInputs :
          /\ newSeed # edSeed
          /\ edSeed' = newSeed
          /\ edHorses' = regenerated(edHorses, newSeed)
          /\ notifyHorsesChanged(edHorses', newSeed)
    /\ edOps' = edOps + 1
    /\ imp' = NoImport
    /\ lastOp' = [op |-> "seedChange", from |-> state, dt |-> 0]
    /\ file' = NoFile
    /\ UNCHANGED edClock
    /\ UNCHANGED rvars

\* the randomize-seed button
EdRandomizeSeed ==
    /\ edOps < MaxEdOps
    /\ \E newSeed \in Seeds :
          /\ edSeed' = newSeed
          /\ edHorses' = regenerated(edHorses, newSeed)
          /\ notifyHorsesChanged(edHorses', newSeed)
    /\ edOps' = edOps + 1
    /\ imp' = NoImport
    /\ lastOp' = [op |-> "randomizeSeed", from |-> state, dt |-> 0]
    /\ file' = NoFile
    /\ UNCHANGED edClock
    /\ UNCHANGED rvars

\* exportRace(): the file the download link saves
EdExportRace ==
    /\ file' = exportRace(edHorses, edSeed)
    /\ imp' = NoImport
    /\ lastOp' = [op |-> "exportRace", from |-> state, dt |-> 0]
    /\ UNCHANGED <<edHorses, edSeed, edClock, edOps>>
    /\ UNCHANGED <<state, horses, raceSeed, raceTime, photoFinishCaptured, pendingStarts,
                   photoCalls, stopped>>
    /\ UNCHANGED rvars

\* files the user may pick besides the one exported: a configuration written by
\* hand, the same under another version, and text that is not JSON
SampleRoster ==
    << [id |-> "a", name |-> "Comet", stats |-> [speed |-> 700, stamina |-> 300, acceleration |-> 0],
        baseSpeed |-> 6000, color |-> 0, hat |-> "top-hat", face |-> "red-nose"],
       [id |-> "b", name |-> "Cupid", stats |-> [speed |-> 1000, stamina |-> 1000, acceleration |-> 1000],
        baseSpeed |-> 10000, color |-> MaxColor, hat |-> "propeller-hat", face |-> "shocked"] >>

SampleConfig == exportRace(SampleRoster, 42)

withField(v, key, x) ==
    IF x.t = "undefined"
    THEN JObj([k \in DOMAIN v.fields \ {key} |-> v.fields[k]])
    ELSE JObj([k \in DOMAIN v.fields \cup {key} |-> IF k = key THEN x ELSE v.fields[k]])

PickableFiles ==
    {NotJson, SampleConfig, withField(SampleConfig, "version", JStr("2.0"))}
    \cup (IF file = NoFile THEN {} ELSE {file})

\* an import that takes the file whatever the user answers
importAcceptedUnasked(parsed, success, asked, answer) == parsed /\ success

\* handleImportFile: the file is taken when it parses, validates and, if the list
\* is not empty, the user confirms
importAccepted(parsed, success, asked, answer) == parsed /\ success /\ (asked => answer)

\* handleImportFile(event), from the file's text to the alert
EdImport ==
    /\ \E f \in PickableFiles, answer \in BOOLEAN :
          LET parsed == f.t # "notjson"
              validation == validateRaceConfig(f)
              success == parsed /\ validation.success
              asked == success /\ Len(edHorses) > 0
              accepted == importAccepted(parsed, success, asked, answer)
          IN /\ asked \/ answer
             /\ accepted => edOps < MaxEdOps
             /\ imp' = [attempted |-> TRUE, raw |-> f, parsed |-> parsed,
                        validation |-> validation, asked |-> asked,
                        confirmed |-> asked /\ answer, accepted |-> accepted]
             /\ IF accepted
                THEN /\ edHorses' = validation.data.horses
                     /\ edSeed' = validation.data.raceSeed
                     /\ notifyHorsesChanged(edHorses', edSeed')
                     /\ edOps' = edOps + 1
                     /\ file' = NoFile
                ELSE UNCHANGED <<edHorses, edSeed, edOps, file, state, horses, raceSeed,
                                 raceTime, photoFinishCaptured, pendingStarts, photoCalls,
                                 stopped>>
    /\ lastOp' = [op |-> "import", from |-> state, dt |-> 0]
    /\ UNCHANGED edClock
    /\ UNCHANGED rvars

\* the race keys and the animation loop, next to the editor
EdStartRace ==
    /\ ~isRacing
    /\ Len(horses) > 0
    /\ mStartRace
    /\ lastOp' = [op |-> "startRace", from |-> state, dt |-> 0]
    /\ imp' = NoImport
    /\ UNCHANGED <<edHorses, edSeed, edClock, edOps, file>>
    /\ UNCHANGED rvars

EdCountdownComplete ==
    /\ mCountdownComplete
    /\ lastOp' = [op |-> "countdown", from |-> state, dt |-> 0]
    /\ imp' = NoImport
    /\ UNCHANGED <<edHorses, edSeed, edClock, edOps, file>>
    /\ UNCHANGED rvars

EdUpdate ==
    /\ raceTime < MaxEdRaceTime
    /\ \E deltaTime \in Deltas :
          /\ mUpdate(deltaTime)
          /\ lastOp' = [op |-> "update", from |-> state, dt |-> deltaTime]
    /\ imp' = NoImport
    /\ UNCHANGED <<edHorses, edSeed, edClock, edOps, file>>
    /\ UNCHANGED rvars

EdStopRace ==
    /\ isRacing
    /\ mStopRace
    /\ lastOp' = [op |-> "stopRace", from |-> state, dt |-> 0]
    /\ imp' = NoImport
    /\ UNCHANGED <<edHorses, edSeed, edClock, edOps, file>>
    /\ UNCHANGED rvars

\* the editor on its own: every operation of its panel
NextEditor ==
    \/ EdAddHorse
    \/ EdDeleteHorse
    \/ EdRandomizeFullRace
    \/ EdSaveHorseEdits
    \/ EdSeedChange
    \/ EdRandomizeSeed
    \/ EdExportRace
    \/ EdImport

SpecEditor == InitEditor /\ [][NextEditor]_vars

\* imports while races are run: competitors are added, races started, ticked and
\* stopped, and files imported in between
NextImport ==
    \/ EdAddHorse
    \/ EdImport
    \/ EdStartRace
    \/ EdCountdownComplete
    \/ EdUpdate
    \/ EdStopRace

SpecImport == InitEditor /\ [][NextImport]_vars

----
\* The podium (main.ts, key 'w'): the first three leaderboard entries are mapped
\* back to competitors by name
PodiumSize == 3

\* horses.find(h => h.data.name === entry.name): the first competitor of that name
findByName(hs, name) ==
    LET found == {i \in DOMAIN hs : hs[i].data.name = name}
    IN CHOOSE i \in found : \A j \in found : i <= j

\* leaderboard.slice(0, 3).map(...): roster indices of the competitors handed to
\* podiumScene.show (every entry's name is a competitor's, so the filter drops none)
topThree(hs) ==
    LET leaderboard == getLeaderboard(hs)
    IN [k \in 1..PodiumSize |-> findByName(hs, leaderboard[k].name)]

\* key 'w' away from the podium screen: stopRace() when isRacing(), then the
\* podium is shown when there are at least three competitors
ShowPodium ==
    /\ IF isRacing
       THEN mStopRace
       ELSE UNCHANGED <<state, horses, raceSeed, raceTime, photoFinishCaptured,
                        pendingStarts, photoCalls, stopped>>
    /\ lastOp' = [op |-> "showPodium", from |-> state, dt |-> 0,
                  shown |-> Len(horses) >= PodiumSize,
                  topThree |-> IF Len(horses) >= PodiumSize THEN topThree(horses) ELSE <<>>]
    /\ imp' = NoImport
    /\ UNCHANGED <<edHorses, edSeed, edClock, edOps, file>>
    /\ UNCHANGED rvars

\* the animation loop while the race clock is below the bound of the model
PodiumUpdate ==
    /\ raceTime < MaxRaceTime
    /\ \E deltaTime \in Deltas :
          /\ mUpdate(deltaTime)
          /\ lastOp' = [op |-> "update", from |-> state, dt |-> deltaTime]
    /\ imp' = NoImport
    /\ UNCHANGED <<edHorses, edSeed, edClock, edOps, file>>
    /\ UNCHANGED rvars

\* full rosters are drawn in the editor, raced, and the podium is shown
NextPodium ==
    \/ EdRandomizeFullRace
    \/ EdStartRace
    \/ EdCountdownComplete
    \/ PodiumUpdate
    \/ ShowPodium

SpecPodium == InitEditor /\ [][NextPodium]_vars

----
\* validateRaceConfig on its own: a raw value is given and validated once
Probes ==
    {JUndefined, JNull, JStr("1.0"), JStr("crown"), JStr("happy"), JStr(""),
     JNum(0, 0), JNum(0, 500), JNum(1, 0), JNum(1, 1), JNum(-1, 999), JNum(5, 999),
     JNum(MinBaseSpeed, 0), JNum(MaxBaseSpeed, 0), JNum(MaxBaseSpeed, 1),
     JNum(MaxColor, 0), JNum(MaxColor + 1, 0), JArr(<<>>), JObj([speed |-> JNum(0, 0)])}

TopKeys == {"version", "raceSeed", "horses"}
HorseKeys == {"id", "name", "stats", "baseSpeed", "color", "hat", "face", "owner"}
StatKeys == {"speed", "stamina", "acceleration"}

withHorse(config, i, horse) ==
    withField(config, "horses", JArr([config.fields.horses.items EXCEPT ![i] = horse]))

withRoster(config, n) ==
    withField(config, "horses", JArr([i \in 1..n |-> horseToJson(SampleRoster[(i % 2) + 1])]))

RawInputs ==
    {JNull, JStr("1.0"), JArr(<<>>), SampleConfig}
    \cup {withRoster(SampleConfig, n) : n \in {0, 1, MaxRoster, MaxRoster + 1}}
    \cup {withField(SampleConfig, key, x) : key \in TopKeys, x \in Probes}
    \cup {withHorse(SampleConfig, 2, withField(SampleConfig.fields.horses.items[2], key, x)) :
             key \in HorseKeys, x \in Probes}
    \cup {withHorse(SampleConfig, 1,
                    withField(SampleConfig.fields.horses.items[1], "stats",
                              withField(SampleConfig.fields.horses.items[1].fields.stats, key, x))) :
             key \in StatKeys, x \in Probes}

InitValidate ==
    /\ state = IDLE
    /\ horses = <<>>
    /\ raceSeed = 0
    /\ raceTime = 0
    /\ photoFinishCaptured = FALSE
    /\ pendingStarts = 0
    /\ photoCalls = 0
    /\ stopped = FALSE
    /\ lastOp = [op |-> "init", from |-> IDLE, dt |-> 0]
    /\ phase = "live"
    /\ log = <<>>
    /\ snap = <<>>
    /\ pos = 0
    /\ edHorses = <<>>
    /\ edSeed = 0
    /\ edClock = 0
    /\ edOps = 0
    /\ file \in RawInputs
    /\ imp = NoImport

Validate ==
    /\ ~imp.attempted
    /\ imp' = [attempted |-> TRUE, raw |-> file, parsed |-> TRUE,
               validation |-> validateRaceConfig(file), asked |-> FALSE,
               confirmed |-> FALSE, accepted |-> FALSE]
    /\ lastOp' = [op |-> "validate", from |-> state, dt |-> 0]
    /\ UNCHANGED <<edHorses, edSeed, edClock, edOps, file>>
    /\ UNCHANGED <<state, horses, raceSeed, raceTime, photoFinishCaptured, pendingStarts,
                   photoCalls, stopped>>
    /\ UNCHANGED rvars

NextValidate == Validate

SpecValidate == InitValidate /\ [][NextValidate]_vars

----
finishedSet(hs) == {i \in DOMAIN hs : hs[i].hasFinished}

\* C1: two runs from a fresh reset that receive the same deltaTime sequence give
\* every competitor the same progress and the same finishTime after every tick
C1_Determinism ==
    (phase = "run2" /\ pos > 0) => results(horses) = snap[pos]

C1_Witness ==
    /\ phase = "run2"
    /\ pos = Len(log)
    /\ pos >= 3
    /\ \E j, k \in DOMAIN log : log[j] > 0 /\ log[k] > 0 /\ log[j] # log[k]
    /\ finishedSet(horses) # {}
    /\ Len(horses) >= 2

\* C2: once stopRace() has been called the state is Finished and stays Finished
\* until resetRace() is called
C2_StaysFinished ==
    [][(stopped /\ state = FINISHED) => (state' = FINISHED \/ ~stopped')]_vars

\* C3: the state changes only along Idle->Countdown (startRace), Countdown->Racing
\* (countdown completes), Racing->Finished (all finished), Racing/Countdown->Finished
\* (stopRace) and any->Idle (reset)
C3_Transitions ==
    [][\/ state' = state
       \/ state = IDLE /\ state' = COUNTDOWN /\ lastOp'.op = "startRace"
       \/ state = COUNTDOWN /\ state' = RACING /\ lastOp'.op = "countdown"
       \/ state = RACING /\ state' = FINISHED /\ lastOp'.op = "update"
                         /\ allFinished(horses')
       \/ state \in {RACING, COUNTDOWN} /\ state' = FINISHED /\ lastOp'.op = "stopRace"
       \/ state' = IDLE /\ lastOp'.op \in {"resetRace", "onHorsesChange"}]_vars

\* C4: in the leaderboard every finished competitor precedes every unfinished one,
\* finished ones are in ascending finishTime and unfinished ones in descending progress
C4_LeaderboardOrder ==
    LET order == leaderboardOrder(horses)
    IN \A j, k \in DOMAIN order :
          j < k =>
             LET a == horses[order[j]]
                 b == horses[order[k]]
             IN /\ b.hasFinished => a.hasFinished
                /\ (a.hasFinished /\ b.hasFinished) => a.finishTime <= b.finishTime
                /\ (~a.hasFinished /\ ~b.hasFinished) => a.progress >= b.progress

C4_Witness ==
    /\ Len(horses) = 3
    /\ Cardinality(finishedSet(horses)) = 1
    /\ leaderboardOrder(horses) # <<1, 2, 3>>
    /\ \E i, j \in DOMAIN horses :
          ~horses[i].hasFinished /\ ~horses[j].hasFinished
          /\ horses[i].progress # horses[j].progress

\* C5: after a tick of a running race in which some competitor is at or past the
\* finish distance, the photo-finish callback has been invoked exactly once
C5_PhotoAtCrossing ==
    (lastOp.op = "update" /\ lastOp.from = RACING
     /\ \E i \in DOMAIN horses : horses[i].progress >= trackLength)
    => photoCalls = 1

\* C6: the photo-finish callback is invoked at most once between two resetRace() calls
C6_PhotoAtMostOnce == photoCalls <= 1

C6_Witness ==
    /\ photoCalls = 1
    /\ Cardinality(finishedSet(horses)) >= 2
    /\ lastOp.op = "update"

\* C7: a competitor's finishTime is set if and only if it has finished
C7_FinishTimeIffFinished ==
    \A i \in DOMAIN horses : (horses[i].finishTime # NoTime) <=> horses[i].hasFinished

C7_Witness ==
    /\ lastOp.op = "update"
    /\ \E i, j \in DOMAIN horses :
          /\ horses[i].hasFinished /\ horses[i].finishTime > 0
          /\ ~horses[j].hasFinished /\ horses[j].progress > 0

\* C8: short of a reset, a competitor that has finished stays finished and keeps
\* its finishTime
C8_FinishOnce ==
    [][lastOp'.op \notin {"resetRace", "onHorsesChange"} =>
          \A i \in DOMAIN horses :
             horses[i].hasFinished =>
                /\ i \in DOMAIN horses'
                /\ horses'[i].hasFinished
                /\ horses'[i].finishTime = horses[i].finishTime]_vars

C8_Witness ==
    /\ lastOp.op = "update"
    /\ lastOp.from = RACING
    /\ \E i \in DOMAIN horses : horses[i].hasFinished /\ horses[i].finishTime < raceTime

\* C9: an update() tick never decreases a competitor's progress and never leaves
\* it with a negative currentSpeed
C9_Monotonic ==
    [][lastOp'.op = "update" =>
          \A i \in DOMAIN horses :
             /\ horses'[i].progress >= horses[i].progress
             /\ horses'[i].currentSpeed >= 0]_vars

C9_Witness ==
    /\ lastOp.op = "update"
    /\ lastOp.dt > 0
    /\ \E i \in DOMAIN horses :
          /\ horses[i].hasFinished
          /\ horses[i].progress > trackLength + DECELERATION_DISTANCE \div 2
          /\ horses[i].currentSpeed > 0
          /\ horses[i].currentSpeed < horses[i].finishSpeed

\* C10: update() called while the state is Idle or Countdown changes nothing
C10_NoAdvanceBeforeRacing ==
    [][(lastOp'.op = "update" /\ state \in {IDLE, COUNTDOWN}) =>
          UNCHANGED <<state, horses, raceSeed, raceTime, photoFinishCaptured,
                      pendingStarts, photoCalls>>]_vars

C10_Witness ==
    /\ lastOp.op = "update"
    /\ lastOp.dt > 0
    /\ lastOp.from = COUNTDOWN
    /\ state = COUNTDOWN
    /\ Len(horses) > 0

\* C11: with an empty roster update() changes neither the state, nor raceTime,
\* nor the photo-finish flag, whatever the race state
C11_EmptyRosterNoOp ==
    [][(lastOp'.op = "update" /\ Len(horses) = 0) =>
          UNCHANGED <<state, raceTime, photoFinishCaptured>>]_vars

\* C12: two complete races of the same roster under the same raceSeed give every
\* competitor the same finishTime (hence the same finish order), whatever
\* deltaTime values each of the two runs received
C12_ReplayAnyDeltas ==
    (/\ phase = "any"
     /\ allFinished(horses)
     /\ \A i \in DOMAIN horses : snap[Len(snap)][i].finishTime # NoTime)
    => \A i \in DOMAIN horses : horses[i].finishTime = snap[Len(snap)][i].finishTime

\* C16: after the roster is replaced (the editor's change callback) the state is
\* Idle, raceTime is 0 and every competitor is at progress 0 and has not finished
C16_ReplaceResets ==
    [][lastOp'.op = "onHorsesChange" =>
          /\ state' = IDLE
          /\ raceTime' = 0
          /\ \A i \in DOMAIN horses' :
                horses'[i].progress = 0 /\ ~horses'[i].hasFinished]_vars

C16_Witness ==
    /\ lastOp.op = "onHorsesChange"
    /\ lastOp.from = FINISHED
    /\ state = IDLE
    /\ Len(horses) >= 2

\* C17: the leaderboard has one entry per competitor, each competitor once, with
\* positions 1..N in order, and unfinished competitors of equal progress keep
\* their roster order
C17_LeaderboardEntries ==
    LET order == leaderboardOrder(horses)
        board == getLeaderboard(horses)
    IN /\ Len(board) = Len(horses)
       /\ \A i \in DOMAIN horses : Cardinality({k \in DOMAIN order : order[k] = i}) = 1
       /\ \A k \in DOMAIN board :
             /\ board[k].position = k
             /\ board[k].name = horses[order[k]].data.name
             /\ board[k].progress = horses[order[k]].progress
       /\ \A j, k \in DOMAIN order :
             (/\ j < k
              /\ ~horses[order[j]].hasFinished
              /\ ~horses[order[k]].hasFinished
              /\ horses[order[j]].progress = horses[order[k]].progress)
             => order[j] < order[k]

C17_Witness ==
    /\ lastOp.op = "update"
    /\ lastOp.from = RACING
    /\ state = RACING
    /\ Len(horses) = 3
    /\ \E i, j \in DOMAIN horses :
          /\ i < j
          /\ ~horses[i].hasFinished /\ ~horses[j].hasFinished
          /\ horses[i].progress = horses[j].progress

\* C19: resetRace() leaves the state Idle, raceTime 0, the photo-finish flag
\* clear and every competitor at its initial racing values, keeps the roster, its
\* data and finalKick, and a second resetRace() right after the first changes nothing
C19_ResetRace ==
    [][lastOp'.op = "resetRace" =>
          /\ state' = IDLE
          /\ raceTime' = 0
          /\ ~photoFinishCaptured'
          /\ Len(horses') = Len(horses)
          /\ \A i \in DOMAIN horses :
                /\ horses'[i].progress = 0
                /\ ~horses'[i].hasFinished
                /\ horses'[i].finishTime = NoTime
                /\ horses'[i].finishSpeed = 0
                /\ horses'[i].speedVariance = 1000
                /\ horses'[i].varianceTimer = 0
                /\ horses'[i].data = horses[i].data
                /\ horses'[i].finalKick = horses[i].finalKick
          /\ (lastOp.op = "resetRace" => mvars' = mvars)]_vars

C19_Witness ==
    /\ lastOp.op = "resetRace"
    /\ lastOp.from = FINISHED
    /\ Len(horses) >= 2
    /\ state = IDLE

C18_RaceCompletes ==
    (state = RACING) ~>
        (/\ state = FINISHED
         /\ \A i \in DOMAIN horses : horses[i].hasFinished /\ horses[i].finishTime > 0)

C18_Witness ==
    /\ state = FINISHED
    /\ lastOp.op = "update"
    /\ Len(horses) = 3
    /\ \A i \in DOMAIN horses : horses[i].hasFinished /\ horses[i].finishTime > 0
    /\ \E i, j \in DOMAIN horses : horses[i].finishTime < horses[j].finishTime

\* C13: a file exported from the editor and imported back with nothing changed in
\* between (the user confirming the replacement) is accepted and leaves the
\* editor's competitor list and raceSeed equal to what they were
C13_RoundTrip ==
    [][(/\ lastOp'.op = "import"
        /\ file # NoFile
        /\ imp'.raw = file
        /\ (imp'.asked => imp'.confirmed))
       => (/\ imp'.accepted
           /\ edHorses' = edHorses
           /\ edSeed' = edSeed)]_vars

\* the shape the schema asks of a raw value, stated field by field
isNumberIn(v, lo, hi) == v.t = "number" /\ numAtLeast(v, lo) /\ numAtMost(v, hi)

conformsHorse(v) ==
    /\ v.t = "object"
    /\ field(v, "id").t = "string"
    /\ field(v, "name").t = "string"
    /\ field(v, "stats").t = "object"
    /\ \A key \in StatKeys : isNumberIn(field(field(v, "stats"), key), 0, 1)
    /\ isNumberIn(field(v, "baseSpeed"), 6, 10)
    /\ isNumberIn(field(v, "color"), 0, 16777215)
    /\ field(v, "color").milli = 0
    /\ field(v, "hat").t = "string" /\ field(v, "hat").str \in HatTypes
    /\ field(v, "face").t = "string" /\ field(v, "face").str \in FaceTypes

conforms(v) ==
    /\ v.t = "object"
    /\ field(v, "version") = JStr("1.0")
    /\ field(v, "raceSeed").t = "number" /\ field(v, "raceSeed").milli = 0
    /\ field(v, "horses").t = "array"
    /\ Len(field(v, "horses").items) \in 1..8
    /\ \A i \in DOMAIN field(v, "horses").items : conformsHorse(field(v, "horses").items[i])

\* the paths an issue of a raw value may be qualified with
issuePaths(v) ==
    {"root", "version", "raceSeed", "horses"}
    \cup (IF v.t = "object" /\ field(v, "horses").t = "array"
          THEN {"horses." \o ToString(i - 1) \o suffix :
                   i \in DOMAIN field(v, "horses").items,
                   suffix \in {"", ".id", ".name", ".stats", ".stats.speed", ".stats.stamina",
                               ".stats.acceleration", ".baseSpeed", ".color", ".hat", ".face"}}
          ELSE {})

issueMessages ==
    {"Required", "Expected number", "Expected integer", "Expected string", "Expected object",
     "Expected array", "Number too small", "Number too big", "Array too small",
     "Array too big", "Invalid enum value", "Invalid literal value"}

\* C14: validateRaceConfig succeeds exactly on the values of the schema's shape, and
\* a failure carries at least one issue, each qualified with a path of the value
C14_ValidateExact ==
    imp.attempted =>
       /\ (imp.validation.success <=> conforms(imp.raw))
       /\ (~imp.validation.success =>
             /\ Len(imp.validation.issues) >= 1
             /\ \A k \in DOMAIN imp.validation.issues :
                   \E path \in issuePaths(imp.raw), message \in issueMessages :
                      imp.validation.issues[k] = issue(path, message))

C14_Witness ==
    /\ imp.attempted
    /\ ~imp.validation.success
    /\ imp.validation.issues = <<issue("horses.1.baseSpeed", "Number too big")>>

\* C15: an import that is not accepted (the text is not JSON, validation fails, or
\* the user declines) leaves the editor's list and seed, the RaceManager's roster
\* and the race state as they were, and a failed validation is a structured
\* failure with its issues
C15_RejectedImport ==
    [][(/\ lastOp'.op = "import"
        /\ \/ ~imp'.parsed
           \/ ~imp'.validation.success
           \/ (imp'.asked /\ ~imp'.confirmed))
       => (/\ UNCHANGED <<edHorses, edSeed, horses, raceSeed, state, raceTime,
                          photoFinishCaptured>>
           /\ (imp'.parsed /\ ~imp'.validation.success)
                 => Len(imp'.validation.issues) >= 1)]_vars

C15_Witness ==
    /\ lastOp.op = "import"
    /\ imp.asked
    /\ ~imp.confirmed
    /\ ~imp.accepted
    /\ state = RACING
    /\ raceTime > 0
    /\ Len(horses) >= 2

----
\* C21: an update() tick that starts in Racing ends in Finished exactly when every
\* competitor has finished at the end of the tick; so after any update() tick a
\* race still in Racing has a competitor that has not finished.
C21_NaturalFinish ==
    [][lastOp'.op = "update" =>
          /\ (lastOp'.from = RACING =>
                 (state' = FINISHED <=> \A i \in DOMAIN horses' : horses'[i].hasFinished))
          /\ (state' = RACING => \E i \in DOMAIN horses' : ~horses'[i].hasFinished)]_vars

\* a tick from Racing on which the last of several competitors finishes, and no
\* stopRace() involved
C21_Witness ==
    /\ lastOp.op = "update"
    /\ lastOp.from = RACING
    /\ state = FINISHED
    /\ ~stopped
    /\ Len(horses) >= 2
    /\ \E i, j \in DOMAIN horses : horses[i].finishTime < horses[j].finishTime

----
\* C22: raceTime grows by exactly deltaTime on an update() tick that starts in
\* Racing, no update() tick in another state changes it, and only startRace() and
\* resetRace() (also as called by the roster callback) set it back to 0.
C22_RaceTime ==
    [][/\ (lastOp'.op = "update" =>
              raceTime' = IF lastOp'.from = RACING THEN raceTime + lastOp'.dt ELSE raceTime)
       /\ ((raceTime' = 0 /\ raceTime # 0) =>
              lastOp'.op \in {"startRace", "resetRace", "onHorsesChange"})
       /\ (lastOp'.op \in {"countdown", "stopRace"} => raceTime' = raceTime)]_vars

\* a tick in Finished, after a stopped race had run for a while, with horses still
\* moving: the clock is frozen
C22_Witness ==
    /\ lastOp.op = "update"
    /\ lastOp.from = FINISHED
    /\ lastOp.dt > 0
    /\ raceTime > 0
    /\ \E i \in DOMAIN horses : horses[i].currentSpeed > 0 /\ horses[i].progress > 0

----
\* C23: every competitor's speedVariance lies in [1 - r, 1 + r] with
\* r = 0.15 * (1 - stamina * 0.5), hence in [0.85, 1.15], and the interval of a
\* competitor of stamina 1 is exactly half as wide as that of one of stamina 0.
C23_VarianceBounds ==
    /\ \A i \in DOMAIN horses :
          LET r == (150 * (1000 - horses[i].data.stamina \div 2)) \div 1000
              v == horses[i].speedVariance
          IN /\ 1000 - r <= v /\ v <= 1000 + r
             /\ 850 <= v /\ v <= 1150
    /\ 2 * varianceRangeOf([stamina |-> 1000]) = varianceRangeOf([stamina |-> 0])

\* re-rolled variances: a competitor of stamina 0 outside the narrow interval
\* next to a competitor of stamina 1 off the neutral value
C23_Witness ==
    \E i, j \in DOMAIN horses :
        /\ horses[i].data.stamina = 0
        /\ (horses[i].speedVariance < 925 \/ horses[i].speedVariance > 1075)
        /\ horses[j].data.stamina = 1000
        /\ horses[j].speedVariance # 1000

----
\* C24: after saveHorseEdits each of speed, stamina and acceleration is in [0, 1]
\* whatever the inputs hold; a number already in [0, 1] is stored unchanged, a
\* number outside is stored as the nearest bound, and the edit is always applied.
stored(input, value) ==
    /\ 0 <= value /\ value <= 1000
    /\ (input.t = "num" /\ 0 <= input.milli /\ input.milli <= 1000 => value = input.milli)
    /\ (input.t = "num" /\ input.milli < 0 => value = 0)
    /\ (input.t = "num" /\ input.milli > 1000 => value = 1000)

C24_StatClamping ==
    [][lastOp'.op = "saveHorseEdits" =>
          LET form == lastOp'.form
              horse == edHorses'[lastOp'.row]
          IN /\ horse.name = form.name
             /\ stored(form.speed, horse.stats.speed)
             /\ stored(form.stamina, horse.stats.stamina)
             /\ stored(form.acceleration, horse.stats.acceleration)]_vars

----
\* C25: after any sequence of editor operations other than import, every
\* competitor's baseSpeed is generateBaseSpeed(raceSeed, its roster index) of the
\* current seed and index, and lies in [6, 10).
baseSpeedsFromIndex(hs, seed) ==
    \A i \in DOMAIN hs :
        /\ hs[i].baseSpeed = generateBaseSpeed(seed, i - 1)
        /\ 6000 <= hs[i].baseSpeed /\ hs[i].baseSpeed < 10000

C25_BaseSpeedFromIndex ==
    [][(/\ lastOp'.op \in {"addHorse", "deleteHorse", "saveHorseEdits", "seedChange",
                           "randomizeSeed", "randomizeFullRace"}
        /\ baseSpeedsFromIndex(edHorses, edSeed))
       => baseSpeedsFromIndex(edHorses', edSeed')]_vars

----
\* C26: when the awaited countdown completes and the state becomes Racing,
\* raceTime is 0 and every competitor has progress 0, hasFinished false and no
\* finishTime, whatever stopRace(), resetRace() and update() did meanwhile.
C26_CleanStart ==
    [][lastOp'.op = "countdown" =>
          /\ state' = RACING
          /\ raceTime' = 0
          /\ \A i \in DOMAIN horses' :
                /\ horses'[i].progress = 0
                /\ ~horses'[i].hasFinished
                /\ horses'[i].finishTime = NoTime]_vars

----
\* C27: while the state is Finished, update() changes no competitor's hasFinished
\* or finishTime and moves only competitors that have finished (deceleration); a
\* competitor that had not crossed the line when the race was stopped is never
\* recorded as finished later and never overtakes anyone on the leaderboard.
C27_FinishedIsFrozen ==
    [][(lastOp'.op = "update" /\ lastOp'.from = FINISHED) =>
          /\ Len(horses') = Len(horses)
          /\ \A i \in DOMAIN horses :
                /\ horses'[i].hasFinished = horses[i].hasFinished
                /\ horses'[i].finishTime = horses[i].finishTime
                /\ (~horses[i].hasFinished => horses'[i].progress = horses[i].progress)
          /\ leaderboardOrder(horses') = leaderboardOrder(horses)]_vars

----
\* C28: once a competitor has finished, its leaderboard position is the same after
\* every later update() tick, whatever the other competitors do.
positionOf(hs, i) ==
    LET order == leaderboardOrder(hs)
    IN CHOOSE k \in DOMAIN order : order[k] = i

C28_FinishedPositionFixed ==
    [][lastOp'.op = "update" =>
          \A i \in DOMAIN horses :
              horses[i].hasFinished => positionOf(horses', i) = positionOf(horses, i)]_vars

----
\* C29: competitors that cross the finish line in the same update() tick get the
\* same finishTime, the raceTime of the tick, and stand in roster order among
\* themselves on the leaderboard, whatever their progress.
crossedIn(before, after, i) == ~before[i].hasFinished /\ after[i].hasFinished

C29_SameTickFinishers ==
    [][lastOp'.op = "update" =>
          \A i, j \in DOMAIN horses :
              (i < j /\ crossedIn(horses, horses', i) /\ crossedIn(horses, horses', j)) =>
                  /\ horses'[i].finishTime = raceTime'
                  /\ horses'[j].finishTime = raceTime'
                  /\ positionOf(horses', i) < positionOf(horses', j)]_vars

\* two competitors have just crossed on the same tick of a running race, and the
\* one later in the roster has gone further
C29_Witness ==
    /\ lastOp.op = "update"
    /\ lastOp.from = RACING
    /\ raceTime > 0
    /\ \E i, j \in DOMAIN horses :
          /\ i < j
          /\ horses[i].hasFinished /\ horses[i].finishTime = raceTime
          /\ horses[j].hasFinished /\ horses[j].finishTime = raceTime
          /\ horses[j].progress > horses[i].progress

----
\* C30: when the podium is shown for at least three competitors, the three
\* competitors found by name for the first three leaderboard entries are distinct
\* and are the competitors ranked 1, 2 and 3, for every roster of the editor.
C30_PodiumIsTopThree ==
    [][(lastOp'.op = "showPodium" /\ lastOp'.shown) =>
          LET order == leaderboardOrder(horses')
              shownHorses == lastOp'.topThree
          IN /\ \A k \in 1..3 : shownHorses[k] = order[k]
             /\ Cardinality({shownHorses[k] : k \in 1..3}) = 3]_vars

====
